---- MODULE Spec2Model ----
(***************************************************************************)
(* Model of src/src/App.tsx: the App component of the listing generator.   *)
(* State = the component's useState cells, localStorage, the requests in   *)
(* flight to the completion endpoint and the closures they captured.       *)
(* Each action is one event handler, one effect pass or one continuation   *)
(* of an awaited request, with React's batched state updates applied at    *)
(* the end of the handler and the save effect that follows the re-render.  *)
(***************************************************************************)
EXTENDS Integers, Sequences, FiniteSets, TLC

\* ------------------------------------------------------------------ bounds
\* HISTORY_LIMIT is 50 in the source (App.tsx:68); the model scales it.
HISTORY_LIMIT == 2
\* number of completion requests one behaviour of Spec may send
MaxRequests == 2
\* number of requests the model lets be outstanding together
MaxInFlight == 2

\* ------------------------------------------------------------ value domains
OutputFields == {"heading", "mls", "zillow", "social", "email", "tiktok"}

\* the sections that carry rewrite buttons (every section but the heading)
RewriteFields == {"mls", "zillow", "social", "email", "tiktok"}

\* the sections whose rewrite buttons the model presses
PressedFields == {"mls", "social"}

\* labels of the rewrite buttons of a section (the instruction they pass)
Instructions(f) ==
  CASE f = "mls"    -> {"Shorter", "Longer", "More Luxury", "More Casual", "Investor"}
    [] f = "zillow" -> {"More Lifestyle", "Shorter"}
    [] f = "social" -> {"Stronger Hook"}
    [] f = "email"  -> {"Tighter"}
    [] f = "tiktok" -> {"More Punch"}

\* the instructions the model presses
PressedInstructions(f) ==
  IF f = "mls" THEN {"Shorter"} ELSE Instructions(f)

Tones     == {"standard", "luxury", "investor", "casual", "hype", "simple"}
Lengths   == {"short", "medium", "long"}
Languages == {"en", "es"}

\* useState<ListingOutputs | null>(null): the null output
NullOutput == [isNull |-> TRUE]
\* useState<string | null>(null) for selectedHistoryId: ids are positive
NullId == 0
\* useState<string | null>(null) for error
NullError == "null"
\* useState<string | null>(null) for rewriteLoadingKey; a key is <<field, instruction>>
NullKey == <<>>

\* A text of the output; "" is a key that is absent or empty (both falsy).
ListingOutputs(h, m, z, s, e, t) ==
  [heading |-> h, mls |-> m, zillow |-> z, social |-> s, email |-> e, tiktok |-> t]

\* useState<ListingFormState>({...}) initial value
InitialForm ==
  [propertyType |-> "", address |-> "", price |-> "", beds |-> "", baths |-> "",
   sqft |-> "", lotSize |-> "", yearBuilt |-> "", parking |-> "",
   neighborhood |-> "", highlights |-> "", tone |-> "luxury",
   length |-> "medium", language |-> "en"]

\* the edits the user makes: (field name, value typed)
FormEdits ==
  { <<"propertyType", "Condo">>, <<"propertyType", "">>,
    <<"highlights", "ocean view">> }

\* faulty variant of ListingSchemaSafeParse: highlights need only be non-empty
SafeParseNonEmptyHighlights(f) ==
  /\ Len(f.propertyType) >= 1
  /\ Len(f.highlights) >= 1
  /\ f.tone \in Tones
  /\ f.length \in Lengths
  /\ f.language \in Languages

\* ListingSchema.safeParse(form).success
ListingSchemaSafeParse(f) ==
  /\ Len(f.propertyType) >= 1
  /\ Len(f.highlights) >= 3
  /\ f.tone \in Tones
  /\ f.length \in Lengths
  /\ f.language \in Languages

\* the message of line 231 (its leading cross-mark glyph left out)
ValidationMessage == "Fill required fields correctly (Property Type & Highlights)."

\* e.message of the failures the handlers catch
NetworkFailure  == "Network Error"
SyntaxFailure   == "Unexpected token in JSON"
MissingRewrite  == "Model did not return rewritten field."

\* ------------------------------------------------------------------- prompt
\* A template literal is the sequence of its pieces: the fixed texts and the
\* interpolated values, in order.  (The en dashes of the source are "-".)
toneMap ==
  [standard |-> "professional, neutral real estate tone",
   luxury   |-> "high-end, premium, aspirational luxury tone",
   investor |-> "ROI-focused, cash-flow oriented, investor analysis style",
   casual   |-> "friendly, approachable, conversational tone",
   hype     |-> "energetic, modern, attention-grabbing tone",
   simple   |-> "easy-to-read, clear, simple tone"]

lengthMap ==
  [short |-> "40-70 words", medium |-> "120-180 words", long |-> "220-300 words"]

\* const lang = data.language === "es" ? "Spanish" : "English"
Lang(data) == IF data.language = "es" THEN "Spanish" ELSE "English"

\* x || "N/A"
OrNA(x) == IF x = "" THEN "N/A" ELSE x

\* const details = `...` (lines 239-251)
Details(data) ==
  << "Property Type: ", data.propertyType,
     "Address: ",       OrNA(data.address),
     "Price: ",         OrNA(data.price),
     "Beds: ",          OrNA(data.beds),
     "Baths: ",         OrNA(data.baths),
     "SqFt: ",          OrNA(data.sqft),
     "Lot Size: ",      OrNA(data.lotSize),
     "Year Built: ",    OrNA(data.yearBuilt),
     "Parking: ",       OrNA(data.parking),
     "Neighborhood: ",  OrNA(data.neighborhood),
     "Highlights: ",    data.highlights >>

\* the fixed text of the prompt, line by line (lines 254-303)
PromptInstructions ==
  << "You are a senior real estate listing copywriter with 20+ years experience.",
     "You ONLY write text descriptions (NOT links, NOT MLS numbers, NOT emails).",
     "You ALWAYS follow Fair Housing laws.",
     "Write FIVE versions of listing copy for the following property, using the details provided.",
     "Return your response as JSON with ONLY these keys:",
     "heading, mls, zillow, social, email, tiktok.",
     "### THE PURPOSE OF EACH FIELD:",
     "heading:",
     "- A short luxury-style headline (4-8 words)",
     "- No emojis",
     "mls:",
     "- Professional MLS-style paragraph",
     "- 120-160 words",
     "- Full property description",
     "- Include layout, features, materials, upgrades, PARKING, LOT SIZE, and YEAR BUILT where provided",
     "- NO links, NO MLS numbers, NO contact info",
     "zillow:",
     "- Friendly, lifestyle-focused description",
     "- 100-140 words",
     "- More emotional, less formal",
     "- Include some lifestyle context (near parks, schools, shopping) when provided",
     "- NO links",
     "social:",
     "- Instagram-style caption",
     "- 1-3 sentences",
     "- Add 5-8 luxury real estate hashtags",
     "- MAX 2 emojis",
     "- NO links",
     "email:",
     "- Professional summary paragraph",
     "- 60-100 words",
     "- Written as if an agent is describing the home via email",
     "- NO email addresses",
     "tiktok:",
     "- Hook + 4-6 bullet points + call-to-action",
     "- MAX 2 emojis total",
     "- NO TikTok links",
     "- NO user handles",
     "- Short, punchy, and high-energy",
     "### PROPERTY DETAILS:" >>

\* const prompt = `...${details}` (lines 253-305)
GeneratePrompt(data) == PromptInstructions \o Details(data)

\* ------------------------------------------------------- completion results
\* What openai.chat.completions.create settles with: a rejection carrying a
\* message, or a completion whose message content is a text.  A content is
\* [json |-> FALSE] (not JSON), or [json |-> TRUE, obj |-> o] with o the
\* parsed object restricted to the six keys ("" = key absent or empty).
EmptyObject == ListingOutputs("", "", "", "", "", "")
FullObject  == ListingOutputs("v1", "v1", "v1", "v1", "v1", "v1")

Rejected(msg)  == [settled |-> "rejected", message |-> msg]
Fulfilled(c)   == [settled |-> "fulfilled", content |-> c]
NotJson        == [json |-> FALSE]
JsonObject(o)  == [json |-> TRUE, obj |-> o]

\* completion.choices[0].message.content || "{}" : an empty content is "{}"
GenerateResults ==
  { Rejected(NetworkFailure), Fulfilled(NotJson),
    Fulfilled(JsonObject(EmptyObject)), Fulfilled(JsonObject(FullObject)) }

\* the rewrite endpoint answers with an object holding (or lacking) the key
RewriteResults(f) ==
  { Rejected(NetworkFailure), Fulfilled(NotJson),
    Fulfilled(JsonObject(EmptyObject)),
    Fulfilled(JsonObject([EmptyObject EXCEPT ![f] = "v2"])) }

\* ------------------------------------------------------------- localStorage
StorageMissing  == [kind |-> "missing"]
StorageCorrupt  == [kind |-> "corrupt"]
StorageNonArray == [kind |-> "json", isArray |-> FALSE, items |-> <<>>]

\* JSON.stringify(history)
JSONstringify(h) == [kind |-> "json", isArray |-> TRUE, items |-> h]

\* a form that passes validation, as stored in persisted entries
StoredForm ==
  [InitialForm EXCEPT !.propertyType = "Condo", !.highlights = "ocean view"]

StoredEntry(i) ==
  [id |-> i, createdAt |-> i, form |-> StoredForm, outputs |-> FullObject,
   favorite |-> FALSE]

\* a persisted log of k entries, newest (highest id) first
StoredLog(k) == [i \in 1..k |-> StoredEntry(k + 1 - i)]

\* a persisted array in which two entries carry one id
StoredLogWithTwin ==
  << [StoredEntry(2) EXCEPT !.favorite = TRUE], [StoredEntry(2) EXCEPT !.createdAt = 1] >>

\* what the storage key may hold when the page opens
InitialStorages ==
  { StorageMissing, StorageCorrupt, StorageNonArray,
    JSONstringify(StoredLogWithTwin) }
  \cup { JSONstringify(StoredLog(k)) : k \in {1, HISTORY_LIMIT + 1} }

\* first id / timestamp handed out by the page (above every persisted one)
FirstFreshId == HISTORY_LIMIT + 2

\* ------------------------------------------------------------------- state
VARIABLES
  phase,              \* "mount" | "rerender" | "ready" | "crashed"
  loading,            \* useState(false)
  rewriteLoadingKey,  \* useState<string|null>(null)
  output,             \* useState<ListingOutputs|null>(null)
  error,              \* useState<string|null>(null)
  form,               \* useState<ListingFormState>
  history,            \* useState<HistoryItem[]>([])
  selectedHistoryId,  \* useState<string|null>(null)
  storage,            \* localStorage[HISTORY_KEY]
  inflight,           \* requests awaiting the endpoint, with their closures
  budget,             \* number of requests the behaviour may still send
  nextId,             \* next value of the id generator
  now,                \* clock read by new Date()
  writable            \* whether localStorage.setItem succeeds

vars == <<phase, loading, rewriteLoadingKey, output, error, form, history,
          selectedHistoryId, storage, inflight, budget, nextId, now, writable>>

\* const isBusy = loading || !!rewriteLoadingKey
isBusy == loading \/ rewriteLoadingKey # NullKey

\* rewriteLoadingKey?.startsWith(f + ":")
KeyStartsWith(f) == rewriteLoadingKey # NullKey /\ rewriteLoadingKey[1] = f

\* the ids of a log
Ids(h) == { h[i].id : i \in 1..Len(h) }

\* updated.slice(0, HISTORY_LIMIT)
Slice(s, n) == SubSeq(s, 1, IF Len(s) < n THEN Len(s) ELSE n)

\* seq without its i-th element
RemoveAt(s, i) == SubSeq(s, 1, i - 1) \o SubSeq(s, i + 1, Len(s))

\* faulty variant of SaveEffect: the effect does not run
SaveEffectSkipped(h, p) ==
  /\ storage' = storage
  /\ phase' = p

\* faulty variant of SaveEffect: no try/catch, the throw of setItem unmounts
\* the component tree
SaveEffectUncaught(h, p) ==
  /\ storage' = IF writable THEN JSONstringify(h) ELSE storage
  /\ phase' = IF writable THEN p ELSE "crashed"

\* useEffect(..., [history]) of a commit that leaves the page in phase p:
\* localStorage.setItem inside try/catch.  The write either stores the
\* serialized log or throws and leaves the key as is; the catch ignores
\* the throw, so the commit ends in p either way.
SaveEffect(h, p) ==
  /\ storage' = IF writable THEN JSONstringify(h) ELSE storage
  /\ phase' = p

\* the state after construction, with b requests left to send and a
\* storage whose writes succeed (w) or throw
InitWith(b, w) ==
  /\ phase = "mount"
  /\ loading = FALSE
  /\ rewriteLoadingKey = NullKey
  /\ output = NullOutput
  /\ error = NullError
  /\ form = InitialForm
  /\ history = <<>>
  /\ selectedHistoryId = NullId
  /\ storage \in InitialStorages
  /\ inflight = <<>>
  /\ budget = b
  /\ nextId = FirstFreshId
  /\ now = FirstFreshId
  /\ writable = w

\* ------------------------------------------------------------ startup effects
\* JSON.parse(raw) of the load effect: the array to hand to setHistory
ParsedItems(raw) == raw.items

\* First commit: the load effect (lines 130-139) reads the key and queues
\* setHistory(parsed); the save effect (lines 141-147) of the same commit
\* then writes the log of the first render, which is empty.
MountEffects ==
  /\ phase = "mount"
  /\ IF storage.kind = "json"
       THEN IF storage.isArray
              THEN history' = ParsedItems(storage) /\ SaveEffect(<<>>, "rerender")
              ELSE history' = history /\ SaveEffect(<<>>, "crashed")
       ELSE history' = history /\ SaveEffect(<<>>, "ready")
  /\ UNCHANGED <<loading, rewriteLoadingKey, output, error, form,
                 selectedHistoryId, inflight, budget, nextId, now, writable>>

\* The re-render caused by setHistory(parsed); its save effect writes the log.
RerenderAfterLoad ==
  /\ phase = "rerender"
  /\ SaveEffect(history, "ready")
  /\ UNCHANGED <<loading, rewriteLoadingKey, output, error, form, history,
                 selectedHistoryId, inflight, budget, nextId, now, writable>>

\* ------------------------------------------------------------- form editing
\* change(e): setForm(p => ({...p, [name]: value}))
Change(name, value) ==
  /\ phase = "ready"
  /\ form' = [form EXCEPT ![name] = value]
  /\ UNCHANGED <<phase, loading, rewriteLoadingKey, output, error, history,
                 selectedHistoryId, storage, inflight, budget, nextId, now, writable>>

\* ----------------------------------------------------------- history helpers
\* faulty variant of PrependAndTruncate: the new item goes to the tail
AppendAndTruncate(prev, item) ==
  LET updated == prev \o <<item>>
  IN  IF Len(updated) > HISTORY_LIMIT THEN Slice(updated, HISTORY_LIMIT) ELSE updated

\* setHistory(prev => [item, ...prev] cut to HISTORY_LIMIT)
PrependAndTruncate(prev, item) ==
  LET updated == <<item>> \o prev
  IN  IF Len(updated) > HISTORY_LIMIT THEN Slice(updated, HISTORY_LIMIT) ELSE updated

\* faulty variant of FlipFavorite: the flag is set, not flipped
SetFavorite(prev, id) ==
  [i \in 1..Len(prev) |->
     IF prev[i].id = id THEN [prev[i] EXCEPT !.favorite = TRUE]
                        ELSE prev[i]]

\* prev.map(h => h.id === id ? {...h, favorite: !h.favorite} : h)
FlipFavorite(prev, id) ==
  [i \in 1..Len(prev) |->
     IF prev[i].id = id THEN [prev[i] EXCEPT !.favorite = ~prev[i].favorite]
                        ELSE prev[i]]

\* prev.filter(h => h.id !== id)
FilterOut(prev, id) == SelectSeq(prev, LAMBDA h : h.id # id)

\* faulty variant of UpdateOutputField: the outputs are replaced, not spread
ReplaceOutputs(prev, id, f, text) ==
  [i \in 1..Len(prev) |->
     IF prev[i].id = id
       THEN [prev[i] EXCEPT !.outputs = [EmptyObject EXCEPT ![f] = text]]
       ELSE prev[i]]

\* faulty variant of UpdateOutputField: the updated entry moves to the head
BumpUpdatedEntry(prev, id, f, text) ==
  [i \in 1..Len(SelectSeq(prev, LAMBDA h : h.id = id)) |->
     [SelectSeq(prev, LAMBDA h : h.id = id)[i] EXCEPT !.outputs[f] = text]]
  \o SelectSeq(prev, LAMBDA h : h.id # id)

\* prev.map(h => h.id === id ? {...h, outputs: {...h.outputs, [f]: text}} : h)
UpdateOutputField(prev, id, f, text) ==
  [i \in 1..Len(prev) |->
     IF prev[i].id = id THEN [prev[i] EXCEPT !.outputs[f] = text]
                        ELSE prev[i]]

\* toggleFavorite(id), from the star button of a listed item
ToggleFavorite(id) ==
  /\ phase = "ready"
  /\ id \in Ids(history)
  /\ history' = FlipFavorite(history, id)
  /\ SaveEffect(history', phase)
  /\ UNCHANGED <<loading, rewriteLoadingKey, output, error, form,
                 selectedHistoryId, inflight, budget, nextId, now, writable>>

\* faulty variant of LoadFromHistory: the form is not restored
LoadOutputOnly(i) ==
  /\ phase = "ready"
  /\ i \in 1..Len(history)
  /\ output' = history[i].outputs
  /\ selectedHistoryId' = history[i].id
  /\ UNCHANGED <<phase, loading, rewriteLoadingKey, error, form, history, storage,
                 inflight, budget, nextId, now, writable>>

\* loadFromHistory(item), from a click on a listed item
LoadFromHistory(i) ==
  /\ phase = "ready"
  /\ i \in 1..Len(history)
  /\ form' = history[i].form
  /\ output' = history[i].outputs
  /\ selectedHistoryId' = history[i].id
  /\ UNCHANGED <<phase, loading, rewriteLoadingKey, error, history, storage,
                 inflight, budget, nextId, now, writable>>

\* faulty variant of AfterDelete: the output stays on screen
AfterDeleteKeepsOutput(id) ==
  IF selectedHistoryId = id
    THEN [selectedHistoryId |-> NullId, output |-> output]
    ELSE [selectedHistoryId |-> selectedHistoryId, output |-> output]

\* faulty variant of AfterDelete: the selection is not cleared
AfterDeleteKeepsSelection(id) ==
  IF selectedHistoryId = id
    THEN [selectedHistoryId |-> selectedHistoryId, output |-> NullOutput]
    ELSE [selectedHistoryId |-> selectedHistoryId, output |-> output]

\* the selection and output deleteFromHistory(id) leaves behind
AfterDelete(id) ==
  IF selectedHistoryId = id
    THEN [selectedHistoryId |-> NullId, output |-> NullOutput]
    ELSE [selectedHistoryId |-> selectedHistoryId, output |-> output]

\* deleteFromHistory(id), from the delete button of a listed item
DeleteFromHistory(id) ==
  /\ phase = "ready"
  /\ id \in Ids(history)
  /\ history' = FilterOut(history, id)
  /\ selectedHistoryId' = AfterDelete(id).selectedHistoryId
  /\ output' = AfterDelete(id).output
  /\ SaveEffect(history', phase)
  /\ UNCHANGED <<loading, rewriteLoadingKey, error, form, inflight,
                 budget, nextId, now, writable>>

\* ------------------------------------------------------------------ generate
\* disabled={isBusy} on the generate button
GenerateEnabled == ~isBusy

\* faulty variant of Generate: the rejection branch returns without
\* setLoading(false)
GenerateStuckOnReject ==
  /\ phase = "ready"
  /\ GenerateEnabled
  /\ IF ~ListingSchemaSafeParse(form)
       THEN /\ loading' = TRUE
            /\ output' = NullOutput
            /\ error' = ValidationMessage
            /\ UNCHANGED <<inflight, budget>>
       ELSE /\ budget > 0
            /\ Len(inflight) < MaxInFlight
            /\ loading' = TRUE
            /\ output' = NullOutput
            /\ error' = NullError
            /\ inflight' = Append(inflight,
                 [kind |-> "generate", data |-> form,
                  prompt |-> GeneratePrompt(form)])
            /\ budget' = budget - 1
  /\ UNCHANGED <<phase, rewriteLoadingKey, form, history, selectedHistoryId,
                 storage, nextId, now, writable>>

\* generate(), up to the await (lines 224-319).  All setState calls of the
\* handler are batched, so a rejected form ends with loading false again.
Generate ==
  /\ phase = "ready"
  /\ GenerateEnabled
  /\ IF ~ListingSchemaSafeParse(form)
       THEN /\ loading' = FALSE
            /\ output' = NullOutput
            /\ error' = ValidationMessage
            /\ UNCHANGED <<inflight, budget>>
       ELSE /\ budget > 0
            /\ Len(inflight) < MaxInFlight
            /\ loading' = TRUE
            /\ output' = NullOutput
            /\ error' = NullError
            /\ inflight' = Append(inflight,
                 [kind |-> "generate", data |-> form,
                  prompt |-> GeneratePrompt(form)])
            /\ budget' = budget - 1
  /\ UNCHANGED <<phase, rewriteLoadingKey, form, history, selectedHistoryId,
                 storage, nextId, now, writable>>

\* What the try block of a handler makes of a settled request: either the
\* parsed object or the message of the error that reaches the catch.
TryParse(r) ==
  IF r.settled = "rejected"
    THEN [ok |-> FALSE, message |-> r.message]
    ELSE IF ~r.content.json
           THEN [ok |-> FALSE, message |-> SyntaxFailure]
           ELSE [ok |-> TRUE, json |-> r.content.obj]

\* faulty variant of NewItem: the form on screen when the response arrives
NewItemCurrentForm(formData, outputs) ==
  [id |-> nextId, createdAt |-> now, form |-> form, outputs |-> outputs,
   favorite |-> FALSE]

\* the item addToHistory builds (lines 164-175)
NewItem(formData, outputs) ==
  [id |-> nextId, createdAt |-> now, form |-> formData, outputs |-> outputs,
   favorite |-> FALSE]

\* faulty variant of GenerateErrorMessage: the detail is dropped
GenerateErrorWithoutDetail(message) == "OpenAI Error: "

\* setError("OpenAI Error: " + e.message)
GenerateErrorMessage(message) == "OpenAI Error: " \o message

\* faulty variant of RewriteErrorMessage: the prefix of the generate handler
RewriteErrorAsGenerate(message) == "OpenAI Error: " \o message

\* setError("Rewrite error: " + e.message)
RewriteErrorMessage(message) == "Rewrite error: " \o message

\* generate(), from the await on (lines 321-332), for the i-th request
GenerateSettle(i, r) ==
  /\ i \in 1..Len(inflight)
  /\ inflight[i].kind = "generate"
  /\ r \in GenerateResults
  /\ inflight' = RemoveAt(inflight, i)
  /\ loading' = FALSE
  /\ LET res == TryParse(r) IN
     IF res.ok
       THEN /\ output' = res.json
            /\ history' = PrependAndTruncate(history, NewItem(inflight[i].data, res.json))
            /\ selectedHistoryId' = nextId
            /\ nextId' = nextId + 1
            /\ now' = now + 1
            /\ SaveEffect(history', phase)
            /\ UNCHANGED error
       ELSE /\ error' = GenerateErrorMessage(res.message)
            /\ UNCHANGED <<output, history, selectedHistoryId, storage, phase,
                           nextId, now>>
  /\ UNCHANGED <<rewriteLoadingKey, form, budget, writable>>

\* ------------------------------------------------------------------- rewrite
\* the rewrite buttons exist only while an output is shown, and carry
\* disabled={rewriteLoadingKey?.startsWith(f + ":") || loading}
RewriteEnabled(f) ==
  /\ output # NullOutput
  /\ ~(KeyStartsWith(f) \/ loading)

\* faulty variant of RewriteSection: no early return on an empty field
RewriteSectionUnguarded(f, instruction) ==
  /\ phase = "ready"
  /\ RewriteEnabled(f)
  /\ budget > 0
  /\ Len(inflight) < MaxInFlight
  /\ rewriteLoadingKey' = <<f, instruction>>
  /\ error' = NullError
  /\ inflight' = Append(inflight,
       [kind |-> "rewrite", field |-> f, instruction |-> instruction,
        selectedHistoryId |-> selectedHistoryId])
  /\ budget' = budget - 1
  /\ UNCHANGED <<phase, loading, output, form, history, selectedHistoryId,
                 storage, nextId, now, writable>>

\* rewriteSection(field, instruction), up to the await (lines 338-373)
RewriteSection(f, instruction) ==
  /\ phase = "ready"
  /\ RewriteEnabled(f)
  /\ IF output = NullOutput \/ output[f] = ""
       THEN UNCHANGED <<rewriteLoadingKey, error, inflight, budget>>
       ELSE /\ budget > 0
            /\ Len(inflight) < MaxInFlight
            /\ rewriteLoadingKey' = <<f, instruction>>
            /\ error' = NullError
            /\ inflight' = Append(inflight,
                 [kind |-> "rewrite", field |-> f, instruction |-> instruction,
                  selectedHistoryId |-> selectedHistoryId])
            /\ budget' = budget - 1
  /\ UNCHANGED <<phase, loading, output, form, history, selectedHistoryId,
                 storage, nextId, now, writable>>

\* faulty variant of MergeIntoOutput: a null output is replaced by the text
MergeIntoNull(prev, f, text) ==
  IF prev # NullOutput THEN [prev EXCEPT ![f] = text]
                       ELSE [EmptyObject EXCEPT ![f] = text]

\* setOutput(prev => prev ? {...prev, [field]: text} : prev)
MergeIntoOutput(prev, f, text) ==
  IF prev # NullOutput THEN [prev EXCEPT ![f] = text] ELSE prev

\* rewriteSection, from the await on (lines 375-406), for the i-th request.
\* selectedHistoryId is the one the handler's closure captured.
RewriteSettle(i, r) ==
  /\ i \in 1..Len(inflight)
  /\ inflight[i].kind = "rewrite"
  /\ r \in RewriteResults(inflight[i].field)
  /\ inflight' = RemoveAt(inflight, i)
  /\ rewriteLoadingKey' = NullKey
  /\ LET res    == TryParse(r)
         f      == inflight[i].field
         closed == inflight[i].selectedHistoryId
     IN
     IF res.ok /\ res.json[f] # ""
       THEN /\ output' = MergeIntoOutput(output, f, res.json[f])
            /\ IF closed # NullId
                 THEN /\ history' = UpdateOutputField(history, closed, f, res.json[f])
                      /\ SaveEffect(history', phase)
                 ELSE UNCHANGED <<history, storage, phase>>
            /\ UNCHANGED error
       ELSE /\ error' = RewriteErrorMessage(
                          IF res.ok THEN MissingRewrite ELSE res.message)
            /\ UNCHANGED <<output, history, storage, phase>>
  /\ UNCHANGED <<loading, form, selectedHistoryId, budget, nextId, now, writable>>

\* --------------------------------------------------------------------- Next
\* the listed items the user clicks or deletes: the first and the last one
ClickedPositions == {1, Len(history)} \cap (1..Len(history))

\* the listed item whose star the user presses: the first one
StarredPositions == {1} \cap (1..Len(history))

Next ==
  \/ MountEffects
  \/ RerenderAfterLoad
  \/ \E e \in FormEdits : Change(e[1], e[2])
  \/ \E i \in StarredPositions : ToggleFavorite(history[i].id)
  \/ \E i \in ClickedPositions : LoadFromHistory(i)
  \/ \E i \in ClickedPositions : DeleteFromHistory(history[i].id)
  \/ Generate
  \/ \E i \in 1..Len(inflight), r \in GenerateResults : GenerateSettle(i, r)
  \/ \E f \in PressedFields : \E ins \in PressedInstructions(f) : RewriteSection(f, ins)
  \/ \E i \in 1..Len(inflight) : \E r \in RewriteResults("mls") \cup RewriteResults("social") :
       RewriteSettle(i, r)

Init == InitWith(MaxRequests, TRUE)

Spec == Init /\ [][Next]_vars

\* The submit handler applied to every form of a bounded family: required
\* fields empty, too short, at the boundary and longer; enums inside and
\* outside their enumerations; optional fields empty and filled.
SubmittedForms ==
  { [InitialForm EXCEPT !.propertyType = pt, !.highlights = hl, !.tone = t,
                        !.length = ln, !.language = lg, !.address = ad,
                        !.price = pr] :
      pt \in {"", "Condo"}, hl \in {"", "ab", "abc", "ocean view"},
      t \in Tones \cup {"formal"}, ln \in Lengths \cup {"tiny"},
      lg \in Languages \cup {"fr"}, ad \in {"", "1 Main St"},
      pr \in {"", "500000"} }

\* the page at rest with an empty log and one of the forms typed in
InitSubmit ==
  /\ phase = "ready"
  /\ loading = FALSE
  /\ rewriteLoadingKey = NullKey
  /\ output = NullOutput
  /\ error = NullError
  /\ form \in SubmittedForms
  /\ history = <<>>
  /\ selectedHistoryId = NullId
  /\ storage = JSONstringify(<<>>)
  /\ inflight = <<>>
  /\ budget = 1
  /\ nextId = FirstFreshId
  /\ now = FirstFreshId
  /\ writable = TRUE

NextSubmit ==
  \/ Generate
  \/ \E i \in 1..Len(inflight), r \in GenerateResults : GenerateSettle(i, r)

SpecSubmit == InitSubmit /\ [][NextSubmit]_vars

\* the same program, followed for one request more
InitLong == InitWith(MaxRequests + 1, TRUE)

SpecLong == InitLong /\ [][Next]_vars

\* the same program on a storage whose setItem throws (quota exceeded,
\* storage disabled)
InitQuota == InitWith(MaxRequests, FALSE)

SpecQuota == InitQuota /\ [][Next]_vars

\* ------------------------------------------------------------------ claims
\* the members of a log
Entries(h) == { h[k] : k \in 1..Len(h) }

\* the requests of one kind that are outstanding
Outstanding(kind) == { k \in 1..Len(inflight) : inflight[k].kind = kind }

\* the step takes the i-th request, one of the given kind, out of flight
Settles(i, kind) ==
  /\ inflight[i].kind = kind
  /\ inflight' = RemoveAt(inflight, i)

\* r is a completion whose content parses to an object
Parses(r) == r.settled = "fulfilled" /\ r.content.json

\* the message of the error a settled request that does not parse raises
FailureDetail(r) == IF r.settled = "rejected" THEN r.message ELSE SyntaxFailure

\* C1: at most one model request, generation or rewrite on any field, is
\* outstanding in every reachable state.
C1_SingleFlight == Len(inflight) <= 1

\* C2: a generation request and a rewrite request are never outstanding
\* together.
C2_GenerateExcludesRewrite ==
  Outstanding("generate") = {} \/ Outstanding("rewrite") = {}

\* C3: when a rewrite of field f succeeds, afterwards the live output and
\* the currently selected history entry agree on f (both hold the returned
\* text), whatever the user did while the request was pending.
C3_RewriteMerge ==
  [][\A i \in 1..Len(inflight) : Settles(i, "rewrite") =>
     \A r \in RewriteResults(inflight[i].field) :
       (RewriteSettle(i, r) /\ Parses(r) /\ r.content.obj[inflight[i].field] # "")
       => \A e \in Entries(history') :
            (e.id = selectedHistoryId' /\ output' # NullOutput)
            => /\ output'[inflight[i].field] = r.content.obj[inflight[i].field]
               /\ e.outputs[inflight[i].field] = output'[inflight[i].field]]_vars

\* the fields of an entry a rewrite has no business with
SameButOutputs(a, b) ==
  /\ a.id = b.id
  /\ a.createdAt = b.createdAt
  /\ a.form = b.form
  /\ a.favorite = b.favorite

\* C4: a rewrite of f, from the click to the settled request, changes no
\* other field of the live output, no other output field of the entry whose
\* id the rewrite was started for, no other entry, and neither the id,
\* createdAt, form nor favorite of any entry.
C4_RewriteIsolation ==
  [][/\ budget' # budget =>
          \A f \in RewriteFields : \A ins \in Instructions(f) :
            RewriteSection(f, ins) => (output' = output /\ history' = history)
     /\ \A i \in 1..Len(inflight) :
          Settles(i, "rewrite") =>
            /\ (output = NullOutput) = (output' = NullOutput)
            /\ output # NullOutput =>
                 \A g \in OutputFields \ {inflight[i].field} : output'[g] = output[g]
            /\ Len(history') = Len(history)
            /\ \A k \in 1..Len(history) :
                 /\ SameButOutputs(history'[k], history[k])
                 /\ \A g \in OutputFields \ {inflight[i].field} :
                      history'[k].outputs[g] = history[k].outputs[g]
                 /\ history[k].id # inflight[i].selectedHistoryId
                      => history'[k] = history[k]]_vars

\* a rewrite of mls has been merged into the output and the selected entry,
\* next to fields it left alone
C4_Witness ==
  /\ output # NullOutput
  /\ output.mls = "v2"
  /\ output.social = "v1"
  /\ \E e \in Entries(history) :
       e.id = selectedHistoryId /\ e.outputs.mls = "v2" /\ e.outputs.social = "v1"

\* C5: deleteFromHistory(id) removes the entries with that id and no other;
\* deleting the selected id leaves selection and output null, deleting
\* another id leaves both as they were.
C5_DeleteCoupling ==
  [][\A id \in Ids(history) :
       DeleteFromHistory(id) =>
         /\ id \notin Ids(history')
         /\ \A e \in Entries(history) : e.id # id => e \in Entries(history')
         /\ Len(history') =
              Len(history) - Cardinality({ k \in 1..Len(history) : history[k].id = id })
         /\ id = selectedHistoryId =>
              (selectedHistoryId' = NullId /\ output' = NullOutput)
         /\ id # selectedHistoryId =>
              (selectedHistoryId' = selectedHistoryId /\ output' = output)]_vars

\* the entry the page generated and selected has been deleted while it was
\* selected: it is gone, and selection and output are null
C5_Witness ==
  /\ phase = "ready"
  /\ nextId = FirstFreshId + 1
  /\ FirstFreshId \notin Ids(history)
  /\ selectedHistoryId = NullId
  /\ output = NullOutput
  /\ ~loading

\* C6: in every reachable state, the state right after the startup load
\* included, the history log has at most HISTORY_LIMIT entries.
C6_HistoryBounded == Len(history) <= HISTORY_LIMIT

\* C7: when a generation succeeds, in that one step the output becomes the
\* parsed response, one entry is added at the head of the log (the rest of
\* the log is the old log, cut at the capacity), the entry has a fresh id,
\* favorite = FALSE, the submitted form and the displayed output, and its id
\* becomes the selected id.
C7_GenerateSuccess ==
  [][\A i \in 1..Len(inflight) : Settles(i, "generate") =>
     \A r \in GenerateResults :
       (GenerateSettle(i, r) /\ Parses(r)) =>
         /\ output' = r.content.obj
         /\ Len(history') >= 1
         /\ Len(history') =
              (IF Len(history) + 1 > HISTORY_LIMIT THEN HISTORY_LIMIT ELSE Len(history) + 1)
         /\ \A k \in 2..Len(history') : history'[k] = history[k - 1]
         /\ history'[1].id \notin Ids(history)
         /\ history'[1].favorite = FALSE
         /\ history'[1].form = inflight[i].data
         /\ history'[1].outputs = output'
         /\ selectedHistoryId' = history'[1].id
         /\ loading' = FALSE]_vars

\* a generated entry heads the log, is selected and shown
C7_Witness ==
  /\ Len(history) >= 2
  /\ history[1].id >= FirstFreshId
  /\ history[1].favorite = FALSE
  /\ selectedHistoryId = history[1].id
  /\ output = history[1].outputs
  /\ ~loading

\* C8: when a generation request rejects or its content is not valid JSON,
\* the history log and the selected id are unchanged and the error becomes
\* "OpenAI Error: " followed by the failure detail.
C8_GenerateFailureKeepsHistory ==
  [][\A i \in 1..Len(inflight) : Settles(i, "generate") =>
     \A r \in GenerateResults :
       (GenerateSettle(i, r) /\ ~Parses(r)) =>
         /\ history' = history
         /\ selectedHistoryId' = selectedHistoryId
         /\ error' = "OpenAI Error: " \o FailureDetail(r)
         /\ loading' = FALSE]_vars

\* a generation whose content was not JSON has been handled, with a log
\* and a selection in place
C8_Witness ==
  /\ error = "OpenAI Error: " \o SyntaxFailure
  /\ ~loading
  /\ Len(history) >= 1
  /\ selectedHistoryId # NullId

\* C9: in the state reached when a generation failure is handled, the
\* displayed output is null.
C9_FailureLeavesOutputEmpty ==
  [][\A i \in 1..Len(inflight) : Settles(i, "generate") =>
     \A r \in GenerateResults :
       (GenerateSettle(i, r) /\ ~Parses(r)) => output' = NullOutput]_vars

\* C10: a submit the validator rejects sends no request, sets the error to
\* the validation message and leaves output, history log and selected id
\* unchanged, with loading false afterwards.
C10_RejectedSubmit ==
  [][(Generate /\ ~ListingSchemaSafeParse(form)) =>
       /\ inflight' = inflight
       /\ error' = ValidationMessage
       /\ output' = output
       /\ history' = history
       /\ selectedHistoryId' = selectedHistoryId
       /\ loading' = FALSE]_vars

\* r is a completion that parses and holds a non-empty text under key f
Rewritten(r, f) == Parses(r) /\ r.content.obj[f] # ""

\* C11: when a rewrite request fails, or its response does not parse, or
\* parses but lacks (or holds an empty text for) the requested key, the
\* error becomes "Rewrite error: " followed by the detail, the live output
\* (and so the field) is what it was, and the history log (and so the field
\* in the selected entry) and the selected id are unchanged.
C11_RewriteFailure ==
  [][\A i \in 1..Len(inflight) : Settles(i, "rewrite") =>
     \A r \in RewriteResults(inflight[i].field) :
       (RewriteSettle(i, r) /\ ~Rewritten(r, inflight[i].field)) =>
         /\ error' = "Rewrite error: " \o
                       (IF Parses(r) THEN MissingRewrite ELSE FailureDetail(r))
         /\ output' = output
         /\ history' = history
         /\ selectedHistoryId' = selectedHistoryId
         /\ rewriteLoadingKey' = NullKey]_vars

\* a rewrite whose response lacked the key has been handled: the output
\* and the selected entry still hold the generated text of every field
C11_Witness ==
  /\ error = "Rewrite error: " \o MissingRewrite
  /\ rewriteLoadingKey = NullKey
  /\ output = FullObject
  /\ \E e \in Entries(history) : e.id = selectedHistoryId /\ e.outputs = FullObject

\* the ids of a log, in the order of the log
IdsOf(h) == [k \in 1..Len(h) |-> h[k].id]

\* every entry of the log was created after the entries behind it
NewestFirst(h) == \A j, k \in 1..Len(h) : j < k => h[j].createdAt > h[k].createdAt

\* C12: the log lists its entries newest first: a successful generation puts
\* the new entry at the head, in front of the old log in its old order (so N
\* additions are listed in reverse insertion order), and toggleFavorite, a
\* rewrite update and loadFromHistory leave the order of the ids as it was,
\* while deleteFromHistory leaves the remaining ids in their old order.
C12_HistoryOrdering ==
  [][/\ NewestFirst(history) => NewestFirst(history')
     /\ \A i \in 1..Len(inflight) :
          /\ Settles(i, "generate") =>
               \/ IdsOf(history') = IdsOf(history)
               \/ /\ IdsOf(history') = Slice(<<nextId>> \o IdsOf(history), HISTORY_LIMIT)
                  /\ history'[1].createdAt = now
          /\ Settles(i, "rewrite") => IdsOf(history') = IdsOf(history)
     /\ \A k \in 1..Len(history) :
          /\ ToggleFavorite(history[k].id) => IdsOf(history') = IdsOf(history)
          /\ LoadFromHistory(k) => IdsOf(history') = IdsOf(history)
          /\ DeleteFromHistory(history[k].id) =>
               IdsOf(history') = SelectSeq(IdsOf(history), LAMBDA x : x # history[k].id)]_vars

\* two generated entries are listed, the later one first, after the head
\* was starred
C12_Witness ==
  /\ Len(history) = 2
  /\ history[1].id = FirstFreshId + 1
  /\ history[2].id = FirstFreshId
  /\ history[1].createdAt > history[2].createdAt
  /\ history[1].favorite

\* C13: a submit is rejected if propertyType is empty, or highlights has
\* fewer than 3 characters, or tone, length or language is outside its
\* enumeration; it is accepted (a request is sent) whenever propertyType is
\* non-empty, highlights has at least 3 characters and the three enums are
\* valid, whatever the optional fields hold.
C13_Validator ==
  [][Generate =>
       LET required == form.propertyType # "" /\ Len(form.highlights) >= 3
           enums    == /\ form.tone \in {"standard", "luxury", "investor",
                                          "casual", "hype", "simple"}
                       /\ form.length \in {"short", "medium", "long"}
                       /\ form.language \in {"en", "es"}
       IN  /\ ~(required /\ enums) =>
                (error' = ValidationMessage /\ inflight' = inflight)
           /\ (required /\ enums) =>
                /\ error' = NullError
                /\ Len(inflight') = Len(inflight) + 1
                /\ inflight'[Len(inflight')].data = form]_vars

\* a form with highlights of exactly 3 characters and every optional field
\* empty has passed validation and its request is out
C13_Witness ==
  /\ Len(inflight) = 1
  /\ inflight[1].kind = "generate"
  /\ inflight[1].data.highlights = "abc"
  /\ inflight[1].data.address = ""
  /\ inflight[1].data.price = ""
  /\ loading

\* the prompt has v among its interpolated values or its fixed lines
Mentions(prompt, v) == \E k \in 1..Len(prompt) : prompt[k] = v

\* C14: the prompt of every generation request contains the tone phrase
\* and the length phrase mapped from the form's tone and length and the
\* name of the form's language, and the same form with another tone would
\* have yielded another prompt.
C14_PromptReflectsStyle ==
  \A k \in 1..Len(inflight) :
    inflight[k].kind = "generate" =>
      LET data == inflight[k].data
      IN  /\ inflight[k].prompt = GeneratePrompt(data)
          /\ Mentions(inflight[k].prompt, toneMap[data.tone])
          /\ Mentions(inflight[k].prompt, lengthMap[data.length])
          /\ Mentions(inflight[k].prompt, Lang(data))
          /\ \A t \in Tones \ {data.tone} :
               GeneratePrompt([data EXCEPT !.tone = t]) # inflight[k].prompt

\* C15: whatever the storage key holds when the page opens, the startup
\* load raises nothing and leaves the page usable; a key that is missing,
\* is not JSON, or is JSON but not an array yields an empty log, and a
\* persisted array yields a log equal to it.
C15_StartupLoad ==
  [][MountEffects =>
       /\ phase' # "crashed"
       /\ IF storage.kind = "json" /\ storage.isArray
            THEN history' = storage.items
            ELSE history' = <<>>]_vars

\* C16: once the page is at rest after startup, and with writes that
\* succeed, the stored value is the serialization of the whole in-memory
\* log, in the log's order, after every step (add, toggleFavorite, delete
\* and rewrite update included); a step that changes the log writes it.
C16_Persistence ==
  (phase = "ready" /\ writable) =>
     /\ storage = JSONstringify(history)
     /\ storage.kind = "json" /\ storage.isArray
     /\ storage.items = history

\* the stored value lists a generated entry whose mls text was rewritten
\* and whose star was set, in front of an older entry
C16_Witness ==
  /\ phase = "ready"
  /\ storage.kind = "json"
  /\ Len(storage.items) = 2
  /\ storage.items[1].id = FirstFreshId
  /\ storage.items[1].outputs.mls = "v2"
  /\ storage.items[1].favorite
  /\ storage.items[2].id < FirstFreshId

\* form, busy flags and error are what they were
SameFormFlagsError ==
  /\ form' = form
  /\ loading' = loading
  /\ rewriteLoadingKey' = rewriteLoadingKey
  /\ error' = error

\* C17: with a storage whose writes throw, every step leaves the stored
\* value as it was and raises nothing (a page at rest stays at rest, the
\* startup reaches the phase the stored value calls for), and the handlers
\* whose commit runs the failing write end with the in-memory history,
\* output, selection, form, busy flags and error they compute.
C17_WriteFailureSwallowed ==
  [][~writable =>
       /\ storage' = storage
       /\ phase = "ready" => phase' = "ready"
       /\ MountEffects =>
            phase' = (IF storage.kind # "json" THEN "ready"
                      ELSE IF storage.isArray THEN "rerender" ELSE "crashed")
       /\ RerenderAfterLoad => (phase' = "ready" /\ history' = history)
       /\ \A k \in 1..Len(history) :
            /\ ToggleFavorite(history[k].id) =>
                 /\ history' = FlipFavorite(history, history[k].id)
                 /\ output' = output
                 /\ selectedHistoryId' = selectedHistoryId
                 /\ SameFormFlagsError
            /\ DeleteFromHistory(history[k].id) =>
                 /\ history' = FilterOut(history, history[k].id)
                 /\ output' = AfterDelete(history[k].id).output
                 /\ selectedHistoryId' = AfterDelete(history[k].id).selectedHistoryId
                 /\ SameFormFlagsError
       /\ \A i \in 1..Len(inflight) :
            /\ (Settles(i, "generate") /\ history' # history) =>
                 /\ history' = PrependAndTruncate(history, NewItem(inflight[i].data, output'))
                 /\ selectedHistoryId' = nextId
                 /\ form' = form
                 /\ loading' = FALSE
                 /\ rewriteLoadingKey' = rewriteLoadingKey
                 /\ error' = error
            /\ (Settles(i, "rewrite") /\ history' # history) =>
                 /\ \E r \in RewriteResults(inflight[i].field) :
                      /\ Rewritten(r, inflight[i].field)
                      /\ history' = UpdateOutputField(history,
                                       inflight[i].selectedHistoryId, inflight[i].field,
                                       r.content.obj[inflight[i].field])
                      /\ output' = MergeIntoOutput(output, inflight[i].field,
                                       r.content.obj[inflight[i].field])
                 /\ selectedHistoryId' = selectedHistoryId
                 /\ form' = form
                 /\ loading' = loading
                 /\ rewriteLoadingKey' = NullKey
                 /\ error' = error]_vars

\* after writes that all failed the key is still missing, and two
\* generations have been added to the log, the later one selected and shown
C17_Witness ==
  /\ ~writable
  /\ phase = "ready"
  /\ storage = StorageMissing
  /\ Len(history) = 2
  /\ history[1].id = FirstFreshId + 1
  /\ selectedHistoryId = history[1].id
  /\ output = history[1].outputs
  /\ ~loading

\* C18: toggleFavorite(id) flips the favorite flag of the entries whose id
\* is id and changes nothing else: the other entries, the other fields of
\* the flipped ones, the length and order of the log, the output and the
\* selection are as before; a second toggleFavorite(id) would restore the
\* log; and for an id no entry has the map leaves the log as it is.
C18_ToggleFavorite ==
  [][\A k \in 1..Len(history) :
       LET id == history[k].id IN
       ToggleFavorite(id) =>
         /\ Len(history') = Len(history)
         /\ \A j \in 1..Len(history) :
              IF history[j].id = id
                THEN /\ history'[j].favorite = ~history[j].favorite
                     /\ [history'[j] EXCEPT !.favorite = history[j].favorite] = history[j]
                ELSE history'[j] = history[j]
         /\ output' = output
         /\ selectedHistoryId' = selectedHistoryId
         /\ FlipFavorite(history', id) = history
         /\ \A other \in (NullId..nextId) \ Ids(history) :
              /\ FlipFavorite(history, other) = history
              /\ FlipFavorite(history', other) = history']_vars

\* the generated entry at the head was starred while it was selected and
\* shown; the older entry behind it was not
C18_Witness ==
  /\ Len(history) >= 2
  /\ history[1].id = FirstFreshId
  /\ history[1].favorite
  /\ ~history[2].favorite
  /\ selectedHistoryId = history[1].id
  /\ output = history[1].outputs

\* C19: selecting a listed entry makes its form the current form, its
\* outputs the displayed output and its id the selected id, sends no
\* request, and leaves the history log and the stored log as they were.
C19_SelectEntry ==
  [][\A k \in 1..Len(history) :
       LoadFromHistory(k) =>
         /\ form' = history[k].form
         /\ output' = history[k].outputs
         /\ selectedHistoryId' = history[k].id
         /\ inflight' = inflight
         /\ budget' = budget
         /\ history' = history
         /\ storage' = storage]_vars

\* a persisted entry has been selected on a page that has sent no request:
\* its form and outputs are the current ones
C19_Witness ==
  /\ selectedHistoryId # NullId
  /\ budget = MaxRequests
  /\ inflight = <<>>
  /\ \E e \in Entries(history) :
       e.id = selectedHistoryId /\ form = e.form /\ output = e.outputs
  /\ form # InitialForm

\* C20: in every reachable state, a log obtained from the startup load
\* included, no two entries of the history log have the same id.
C20_UniqueIds ==
  \A j, k \in 1..Len(history) : j # k => history[j].id # history[k].id

\* C21: in every reachable state a non-null selected id is the id of an
\* entry of the history log.
C21_NoDanglingSelection ==
  selectedHistoryId # NullId => selectedHistoryId \in Ids(history)

\* a generated entry was added to a full log, which dropped its tail, and
\* the oldest entry that remained was then selected
C21_Witness ==
  /\ Len(history) = HISTORY_LIMIT
  /\ history[1].id = FirstFreshId
  /\ selectedHistoryId = history[Len(history)].id
  /\ selectedHistoryId < FirstFreshId
  /\ output = history[Len(history)].outputs

\* C22: in every reachable state, if the displayed output is non-null then
\* the selected id is non-null.
C22_OutputImpliesSelection ==
  output # NullOutput => selectedHistoryId # NullId

\* a rewrite response has arrived after another entry was selected: the
\* output shown carries the rewritten text, the selected entry does not
C22_Witness ==
  /\ output # NullOutput
  /\ output.mls = "v2"
  /\ selectedHistoryId # NullId
  /\ inflight = <<>>
  /\ \E e \in Entries(history) : e.id = selectedHistoryId /\ e.outputs.mls = "v1"

\* C23: a submit the validator rejects ends with loading false, a settled
\* generation (success or failure) ends with loading false, a settled
\* rewrite ends with rewriteLoadingKey null; so in every state with no
\* request outstanding loading is false, rewriteLoadingKey is null and the
\* generate button is enabled.
C23_BusyFlagsClear ==
  [][/\ (Generate /\ ~ListingSchemaSafeParse(form)) => loading' = FALSE
     /\ \A i \in 1..Len(inflight) :
          /\ Settles(i, "generate") => loading' = FALSE
          /\ Settles(i, "rewrite") => rewriteLoadingKey' = NullKey
     /\ inflight' = <<>> =>
          /\ loading' = FALSE
          /\ rewriteLoadingKey' = NullKey
          /\ GenerateEnabled']_vars

\* every request of the budget was sent and has settled, a generation
\* among them with success: the page is idle
C23_Witness ==
  /\ budget = 0
  /\ inflight = <<>>
  /\ nextId > FirstFreshId
  /\ ~loading
  /\ rewriteLoadingKey = NullKey
  /\ error # NullError

\* the step leaves the form of every entry that stays in the log as it was
KeepsStoredForms ==
  \A k \in 1..Len(history') :
    history'[k].id \in Ids(history) =>
      \E j \in 1..Len(history) :
        history[j].id = history'[k].id /\ history[j].form = history'[k].form

\* C24: the request a submit sends carries the form as it was validated;
\* no step changes the form a request in flight carries; the entry a
\* successful generation adds stores the form its request carries, whatever
\* the form on screen is by then; and no step, form edits and selections
\* included, changes the form stored in an entry of the log.
C24_FormSnapshot ==
  [][/\ budget' # budget =>
          (Generate => inflight'[Len(inflight')].data = form)
     /\ \A i \in 1..Len(inflight) :
          /\ \/ \E j \in 1..Len(inflight') : inflight'[j] = inflight[i]
             \/ inflight' = RemoveAt(inflight, i)
          /\ (Settles(i, "generate") /\ Len(history') > 0 /\ history'[1].id = nextId)
               => history'[1].form = inflight[i].data
     /\ KeepsStoredForms
     /\ form' # form => (history' = history /\ inflight' = inflight)]_vars

\* a generated entry stores the form that was submitted, while the form on
\* screen is another one
C24_Witness ==
  /\ Len(history) >= 1
  /\ history[1].id >= FirstFreshId
  /\ history[1].form.propertyType = "Condo"
  /\ form.propertyType = ""
  /\ selectedHistoryId = history[1].id
  /\ output = history[1].outputs

\* C25: when a response is applied, what toggleFavorite and delete did to
\* the log while the request was in flight is kept: a generation's success
\* puts its entry in front of the log as it is now, a rewrite's success
\* changes only output texts of entries of the log as it is now (no entry
\* comes back, no favorite flag changes); and a rewrite whose entry (the
\* one selected when it started) is no longer in the log changes neither
\* the history nor the output.
C25_NoLostUpdates ==
  [][\A i \in 1..Len(inflight) :
       /\ Settles(i, "generate") =>
            \/ history' = history
            \/ \A k \in 2..Len(history') : history'[k] = history[k - 1]
       /\ Settles(i, "rewrite") =>
            /\ Len(history') = Len(history)
            /\ \A k \in 1..Len(history) : SameButOutputs(history'[k], history[k])
            /\ inflight[i].selectedHistoryId \notin Ids(history) =>
                 (history' = history /\ output' = output)]_vars

\* C26: rewriteSection on field f with a null output, or with an output
\* whose field f is missing or empty, sends no request and leaves
\* rewriteLoadingKey, error, output, history and selection as they are; so
\* every rewrite request that is sent is for a field of the displayed
\* output that holds a text.
C26_RewritePrecondition ==
  [][/\ \A f \in RewriteFields : \A ins \in Instructions(f) :
          (RewriteSection(f, ins) /\ (output = NullOutput \/ output[f] = "")) =>
             /\ inflight' = inflight
             /\ budget' = budget
             /\ rewriteLoadingKey' = rewriteLoadingKey
             /\ error' = error
             /\ output' = output
             /\ history' = history
             /\ selectedHistoryId' = selectedHistoryId
     /\ (Len(inflight') > Len(inflight) /\ inflight'[Len(inflight')].kind = "rewrite") =>
          /\ output # NullOutput
          /\ output[inflight'[Len(inflight')].field] # ""]_vars

\* an output whose sections are all empty is shown and the rewrite buttons
\* are enabled, with requests left to send: a press returns at once
C26_Witness ==
  /\ output = EmptyObject
  /\ RewriteEnabled("mls")
  /\ phase = "ready"
  /\ budget > 0
  /\ inflight = <<>>
  /\ rewriteLoadingKey = NullKey

\* C27: starting from a storage that holds a non-empty array, no step of
\* the startup stores a log that omits a persisted entry, and when the
\* startup has settled the in-memory log and the stored value both equal
\* the persisted log.
C27_StartupKeepsStoredLog ==
  [][/\ (MountEffects /\ storage.kind = "json" /\ storage.isArray
                       /\ Len(storage.items) > 0) =>
          /\ history' = storage.items
          /\ storage'.kind = "json" /\ storage'.isArray
          /\ \A e \in Entries(storage.items) : e \in Entries(storage'.items)
     /\ RerenderAfterLoad =>
          /\ history' = history
          /\ storage' = JSONstringify(history)]_vars

====
